---- MODULE Spec2Model ----
(***************************************************************************)
(* Model of the esb data plane: the duplex EsbBuffer (buffer.rs), the      *)
(* application-side handles EsbApp / EsbAppSender / EsbAppReceiver         *)
(* (app.rs) and the grant views PayloadR / PayloadW (payload.rs), over a   *)
(* byte-level model of the framed bip-buffer queue the handles wrap.       *)
(***************************************************************************)
EXTENDS Integers, Sequences, FiniteSets, TLC

(***************************************************************************)
(* Bounds of the model.                                                    *)
(***************************************************************************)
\* Bytes of storage of the app-to-radio queue (const generic OUT).
OutCap == 13
\* Bytes of storage of the radio-to-app queue (const generic IN).
InCap == 14
\* Largest Config::maximum_payload_size a split is called with.
MaxPayload == 1
\* How many times try_split is called on the buffer.
MaxSplits == 2
\* How many reservations each queue hands out.
MaxGrants == 3

(***************************************************************************)
(* Program constants.                                                      *)
(***************************************************************************)
\* size_of::<u16>(): the length prefix the framed queue puts before a frame.
FrameHdrLen == 2
rssi_idx == 0
pipe_idx == 1
length_idx == 2
pid_no_ack_idx == 3
header_size == 4

Chans == {"atr", "rta"}

Cap(c) == IF c = "atr" THEN OutCap ELSE InCap

Min(a, b) == IF a < b THEN a ELSE b

\* Values the callers put in the header fields and in the body.
RssiVals == {0}
Pipes == {1, 2}
PidVals == {3}
BodyVals == {7}
Lengths == 0..(MaxPayload + 1)
Headers == [rssi : RssiVals, pipe : Pipes, length : Lengths, pid_no_ack : PidVals]

(***************************************************************************)
(* PayloadHeader codec (payload.rs).                                       *)
(***************************************************************************)
\* Mutant: the length and the pid/no-ack byte change places.
to_bytes_reordered(h) == <<h.rssi, h.pipe, h.pid_no_ack, h.length>>

to_bytes(h) == <<h.rssi, h.pipe, h.length, h.pid_no_ack>>

from_bytes(bytes) ==
    [rssi |-> bytes[rssi_idx + 1], pipe |-> bytes[pipe_idx + 1],
     length |-> bytes[length_idx + 1], pid_no_ack |-> bytes[pid_no_ack_idx + 1]]

payload_len_of(h) == h.length

(***************************************************************************)
(* The framed queue behind FramedProducer / FramedConsumer: a bip buffer   *)
(* with a u16 length prefix per frame.  A queue is a record                *)
(* [buf, write, read, last, reserve, wip, rip]: the storage, the four      *)
(* indices, and the write- and read-grant-in-progress flags.               *)
(***************************************************************************)
EmptyQueue(cap) ==
    [buf |-> [i \in 0..(cap - 1) |-> 0], write |-> 0, read |-> 0, last |-> 0,
     reserve |-> 0, wip |-> FALSE, rip |-> FALSE]

\* Reserve sz contiguous bytes: [err, q, start].
grant_exact(q, cap, sz) ==
    IF q.wip THEN [err |-> "GrantInProgress", q |-> q, start |-> 0]
    ELSE IF q.write < q.read
    THEN IF q.write + sz < q.read
         THEN [err |-> "Ok", q |-> [q EXCEPT !.wip = TRUE, !.reserve = q.write + sz],
               start |-> q.write]
         ELSE [err |-> "InsufficientSize", q |-> q, start |-> 0]
    ELSE IF q.write + sz <= cap
         THEN [err |-> "Ok", q |-> [q EXCEPT !.wip = TRUE, !.reserve = q.write + sz],
               start |-> q.write]
         ELSE IF sz < q.read
              THEN [err |-> "Ok", q |-> [q EXCEPT !.wip = TRUE, !.reserve = sz],
                    start |-> 0]
              ELSE [err |-> "InsufficientSize", q |-> q, start |-> 0]

\* Make `used` of the grant_len reserved bytes visible and end the write grant.
commit_inner(q, cap, grant_len, used) ==
    IF ~q.wip THEN q
    ELSE LET u == Min(grant_len, used)
             new_write == q.reserve - (grant_len - u)
             new_last == IF new_write < q.write /\ q.write # cap THEN q.write
                         ELSE IF new_write > q.last THEN cap
                         ELSE q.last
         IN [q EXCEPT !.reserve = new_write, !.last = new_last,
                      !.write = new_write, !.wip = FALSE]

\* Start a read grant over the contiguous committed bytes: [err, q, start, len].
read_inner(q) ==
    IF q.rip THEN [err |-> "GrantInProgress", q |-> q, start |-> 0, len |-> 0]
    ELSE LET wrap == q.read = q.last /\ q.write < q.read
             rd == IF wrap THEN 0 ELSE q.read
             q1 == [q EXCEPT !.read = rd]
             sz == (IF q.write < rd THEN q.last ELSE q.write) - rd
         IN IF sz = 0
            THEN [err |-> "Empty", q |-> q1, start |-> 0, len |-> 0]
            ELSE [err |-> "Ok", q |-> [q1 EXCEPT !.rip = TRUE], start |-> rd, len |-> sz]

\* Give back `used` bytes and end the read grant.
release_inner(q, used) ==
    IF ~q.rip THEN q
    ELSE [q EXCEPT !.read = q.read + used, !.rip = FALSE]

\* The u16 length prefix stored (little endian) at offset off.
ReadFrameHdr(q, off) == q.buf[off] + 256 * q.buf[off + 1]

WriteFrameHdr(q, off, v) ==
    [q EXCEPT !.buf = [q.buf EXCEPT ![off] = v % 256, ![off + 1] = v \div 256]]

\* FramedProducer::grant(sz): [err, q, off, hdr]; the frame body is the sz
\* bytes from off + FrameHdrLen.
FramedGrant(q, cap, sz) ==
    LET r == grant_exact(q, cap, sz + FrameHdrLen)
    IN [err |-> r.err, q |-> r.q, off |-> r.start, hdr |-> sz]

\* FramedGrantW::commit(used): used is clamped to the grant's size.
FramedCommit(q, cap, off, hdr, used) ==
    LET clamp == Min(hdr, used)
    IN commit_inner(WriteFrameHdr(q, off, clamp), cap, FrameHdrLen + hdr,
                    FrameHdrLen + clamp)

\* Dropping a FramedGrantW commits nothing.
FramedAbort(q, cap, hdr) == commit_inner(q, cap, FrameHdrLen + hdr, 0)

\* FramedConsumer::read(): [err, q, off, len]; the frame body is the len
\* bytes from off + FrameHdrLen.
FramedRead(q) ==
    LET r == read_inner(q)
    IN IF r.err # "Ok" THEN [err |-> r.err, q |-> r.q, off |-> 0, len |-> 0]
       ELSE IF r.len < FrameHdrLen
            \/ FrameHdrLen + ReadFrameHdr(r.q, r.start) > r.len
       THEN [err |-> "InconsistentFrameHeader", q |-> release_inner(r.q, 0),
             off |-> 0, len |-> 0]
       ELSE [err |-> "Ok", q |-> r.q, off |-> r.start,
             len |-> ReadFrameHdr(r.q, r.start)]

\* FramedGrantR::release(): the whole frame, prefix included.
FramedRelease(q, len) == release_inner(q, FrameHdrLen + len)

\* Dropping a FramedGrantR releases nothing.
FramedReadDrop(q) == release_inner(q, 0)

\* Bytes i..j-1 of a grant whose body starts at off + FrameHdrLen, as a sequence.
GrantBytes(q, off, i, j) == [k \in 1..(j - i) |-> q.buf[off + FrameHdrLen + i + k - 1]]

\* Store the sequence bs at byte i of the grant.
GrantStore(q, off, i, bs) ==
    [q EXCEPT !.buf = [x \in DOMAIN q.buf |->
        IF x >= off + FrameHdrLen + i /\ x < off + FrameHdrLen + i + Len(bs)
        THEN bs[x - (off + FrameHdrLen + i) + 1] ELSE q.buf[x]]]

(***************************************************************************)
(* State.                                                                  *)
(***************************************************************************)
VARIABLES
    apps,        \* maximum_payload of every EsbApp / EsbIrq pair handed out
    init_log,    \* the collaborators' init calls, in order
    timer_flag,  \* EsbBuffer::timer_flag
    q,           \* app_to_radio_buf ("atr") and radio_to_app_buf ("rta")
    wg,          \* the PayloadW alive on each queue
    rg,          \* the PayloadR alive on each queue
    ww,          \* the pending wait_grant_packet future
    wr,          \* whether a wait_read_packet future is pending
    ret,         \* what the step just taken returned, if it was a call of the
                 \* application-side interface; a dropped grant is noted too
    inflight,    \* per queue, the frames committed and not yet released
    granted      \* per queue, the number of reservations handed out

vars == <<apps, init_log, timer_flag, q, wg, rg, ww, wr, ret, inflight, granted>>

\* History kept with a PayloadW for the claims: req is the header it was
\* requested with, body the bytes written through DerefMut (-1: not written).
NoHeader == [rssi |-> 0, pipe |-> 0, length |-> 0, pid_no_ack |-> 0]
NoW == [st |-> "none", off |-> 0, hdr |-> 0, hset |-> FALSE, used |-> 0, plen |-> 0,
        req |-> NoHeader]
NoR == [held |-> FALSE, off |-> 0, len |-> 0]
NoWait == [st |-> "idle", a |-> 0, header |-> 0]
NoRet == [op |-> "none", res |-> "none"]
Returned(op, res) == [op |-> op, res |-> res]

Init ==
    /\ apps = <<>>
    /\ init_log = <<>>
    /\ timer_flag \in BOOLEAN
    /\ q = [c \in Chans |-> EmptyQueue(Cap(c))]
    /\ wg = [c \in Chans |-> NoW]
    /\ rg = [c \in Chans |-> NoR]
    /\ ww = NoWait
    /\ wr = FALSE
    /\ ret = NoRet
    /\ inflight = [c \in Chans |-> <<>>]
    /\ granted = [c \in Chans |-> 0]

Handles == 1..Len(apps)

(***************************************************************************)
(* EsbBuffer::try_split (buffer.rs).                                       *)
(***************************************************************************)
try_split(max) ==
    /\ Len(apps) < MaxSplits
    /\ timer_flag' = FALSE
    /\ apps' = Append(apps, max)
    /\ init_log' = init_log \o <<"radio", "timer">>
    /\ ret' = [op |-> "try_split", res |-> "Ok"]
    /\ UNCHANGED <<q, wg, rg, ww, wr, inflight, granted>>

\* The handles try_split hands out: which queue each side's producer and
\* consumer belong to.
prod_to_radio == "atr"
\* Mutant: the application is handed the consumer of its own queue.
cons_from_radio_own_queue == "atr"
cons_from_radio == "rta"
prod_to_app == "rta"
cons_from_app == "atr"

\* The timer interrupt raising the flag through an IrqTimer.
timer_fired ==
    /\ Len(apps) > 0
    /\ ~timer_flag
    /\ timer_flag' = TRUE
    /\ ret' = NoRet
    /\ UNCHANGED <<apps, init_log, q, wg, rg, ww, wr, inflight, granted>>

(***************************************************************************)
(* PayloadW (payload.rs): grant[i] is byte i of the reservation.           *)
(***************************************************************************)
\* Mutant: the constructor keeps the grant and stores no header.
new_from_app_stores_nothing(qc, off, header) == qc

new_from_app(qc, off, header) == GrantStore(qc, off, 0, to_bytes(header))

update_header(qc, off, header) == GrantStore(qc, off, 0, to_bytes(header))

\* Mutant: the offset is the size of the whole header.
dma_payload_offset_header_size == header_size

\* PayloadHeader::dma_payload_offset.
dma_payload_offset == 2

\* PayloadR::dma_pointer and PayloadW::dma_pointer over the grant that
\* starts at off, as an index into the queue's storage.
dma_pointer(off) == off + FrameHdrLen + dma_payload_offset

\* Mutant: pipe() reads the byte before the pipe field.
pipe_reads_rssi(qc, off) == qc.buf[off + FrameHdrLen + rssi_idx]

\* PayloadR::pipe and PayloadW::pipe, over the grant that starts at off.
pipe(qc, off) == qc.buf[off + FrameHdrLen + pipe_idx]

payload_len(qc, off) == qc.buf[off + FrameHdrLen + length_idx]

\* DerefMut: body byte i is byte header_size + i of the reservation.
write_body(c, i, b) ==
    /\ wg[c].st = "held"
    /\ i < wg[c].hdr - header_size
    /\ q' = [q EXCEPT ![c] = GrantStore(q[c], wg[c].off, header_size + i, <<b>>)]
    /\ ret' = NoRet
    /\ UNCHANGED <<apps, init_log, timer_flag, wg, rg, ww, wr, inflight, granted>>

\* What a commit of `used` bytes of the reservation makes visible.
Committed(qc, w, used) == GrantBytes(qc, w.off, 0, Min(w.hdr, used))

\* Mutant: commit_all commits the body's length without the header's.
commit_all_without_header(c) ==
    /\ wg[c].st = "held"
    /\ wg[c].hset
    /\ LET len == payload_len(q[c], wg[c].off)
       IN /\ q' = [q EXCEPT ![c] = FramedCommit(q[c], Cap(c), wg[c].off, wg[c].hdr, len)]
          /\ inflight' = [inflight EXCEPT ![c] = Append(@, Committed(q[c], wg[c], len))]
    /\ wg' = [wg EXCEPT ![c] = NoW]
    /\ ret' = NoRet
    /\ UNCHANGED <<apps, init_log, timer_flag, rg, ww, wr, granted>>

commit_all(c) ==
    /\ wg[c].st = "held"
    /\ wg[c].hset
    /\ LET len == payload_len(q[c], wg[c].off) + header_size
       IN /\ q' = [q EXCEPT ![c] = FramedCommit(q[c], Cap(c), wg[c].off, wg[c].hdr, len)]
          /\ inflight' = [inflight EXCEPT ![c] = Append(@, Committed(q[c], wg[c], len))]
    /\ wg' = [wg EXCEPT ![c] = NoW]
    /\ ret' = NoRet
    /\ UNCHANGED <<apps, init_log, timer_flag, rg, ww, wr, granted>>

\* Mutant: commit(used) takes used as it is, without the min.
commit_payload_len_unclamped(used, max_payload_len) == used

\* commit(used): the length that is recorded and committed.
commit_payload_len(used, max_payload_len) == Min(used, max_payload_len)

\* Mutant: commit(used) leaves the header's length field as it was.
commit_header_keeps_length(c, used) ==
    /\ wg[c].st = "held"
    /\ wg[c].hset
    /\ LET n == commit_payload_len(used, payload_len(q[c], wg[c].off))
       IN wg' = [wg EXCEPT ![c].st = "committing", ![c].used = used, ![c].plen = n]
    /\ ret' = NoRet
    /\ UNCHANGED <<apps, init_log, timer_flag, q, rg, ww, wr, inflight, granted>>

\* commit(used), first half: payload_len = min(used, max_payload_len) is
\* written (as u8) to the header's length field.
commit_header(c, used) ==
    /\ wg[c].st = "held"
    /\ wg[c].hset
    /\ LET n == commit_payload_len(used, payload_len(q[c], wg[c].off))
       IN /\ q' = [q EXCEPT ![c] = GrantStore(q[c], wg[c].off, length_idx, <<n % 256>>)]
          /\ wg' = [wg EXCEPT ![c].st = "committing", ![c].used = used, ![c].plen = n]
    /\ ret' = NoRet
    /\ UNCHANGED <<apps, init_log, timer_flag, rg, ww, wr, inflight, granted>>

\* commit(used), second half: payload_len + header_size bytes of the
\* underlying grant are committed.
commit_grant(c) ==
    /\ wg[c].st = "committing"
    /\ LET len == wg[c].plen + header_size
       IN /\ q' = [q EXCEPT ![c] = FramedCommit(q[c], Cap(c), wg[c].off, wg[c].hdr, len)]
          /\ inflight' = [inflight EXCEPT ![c] = Append(@, Committed(q[c], wg[c], len))]
    /\ wg' = [wg EXCEPT ![c] = NoW]
    /\ ret' = NoRet
    /\ UNCHANGED <<apps, init_log, timer_flag, rg, ww, wr, granted>>

\* Mutant: a PayloadW going out of scope commits its whole reservation.
drop_w_commits(c) ==
    /\ wg[c].st = "held"
    /\ q' = [q EXCEPT ![c] = FramedCommit(q[c], Cap(c), wg[c].off, wg[c].hdr, wg[c].hdr)]
    /\ wg' = [wg EXCEPT ![c] = NoW]
    /\ ret' = Returned("drop_w", "none")
    /\ UNCHANGED <<apps, init_log, timer_flag, rg, ww, wr, inflight, granted>>

\* A PayloadW going out of scope uncommitted.
drop_w(c) ==
    /\ wg[c].st = "held"
    /\ q' = [q EXCEPT ![c] = FramedAbort(q[c], Cap(c), wg[c].hdr)]
    /\ wg' = [wg EXCEPT ![c] = NoW]
    /\ ret' = Returned("drop_w", "none")
    /\ UNCHANGED <<apps, init_log, timer_flag, rg, ww, wr, inflight, granted>>

(***************************************************************************)
(* EsbAppSender / EsbApp, sending side (app.rs).                           *)
(***************************************************************************)
\* Mutant: the check lets a length one over the maximum through.
exceeds_max_off_by_one(header, maximum_payload) ==
    header.length > maximum_payload + 1

\* "Check we have not exceeded the configured packet max".
exceeds_max(header, maximum_payload) == header.length > maximum_payload

\* Mutant: the reservation counts the header twice.
grant_size_header_twice(header) == payload_len_of(header) + 2 * header_size

\* The size grant_packet and wait_grant_packet reserve.
grant_size(header) == payload_len_of(header) + header_size

\* The map_err of grant_packet: every queue error becomes InternalError.
grant_error(err) == "InternalError"

grant_packet(a, header) ==
    /\ a \in Handles
    /\ ~(ww.st = "pending" /\ ww.a = a)
    /\ IF exceeds_max(header, apps[a])
       THEN /\ ret' = Returned("grant_packet", "MaximumPacketExceeded")
            /\ UNCHANGED <<q, wg, granted>>
       ELSE LET r == FramedGrant(q[prod_to_radio], Cap(prod_to_radio), grant_size(header))
            IN IF r.err # "Ok"
               THEN /\ ret' = Returned("grant_packet", grant_error(r.err))
                    /\ q' = [q EXCEPT ![prod_to_radio] = r.q]
                    /\ UNCHANGED wg
               ELSE /\ granted[prod_to_radio] < MaxGrants
                    /\ ret' = Returned("grant_packet", "Ok")
                    /\ q' = [q EXCEPT ![prod_to_radio] = new_from_app(r.q, r.off, header)]
                    /\ wg' = [wg EXCEPT ![prod_to_radio] =
                                [st |-> "held", off |-> r.off, hdr |-> r.hdr,
                                 hset |-> TRUE, used |-> 0, plen |-> 0,
                                 req |-> header]]
    /\ granted' = [granted EXCEPT ![prod_to_radio] =
                     IF ret'.res = "Ok" THEN @ + 1 ELSE @]
    /\ UNCHANGED <<apps, init_log, timer_flag, rg, ww, wr, inflight>>

\* wait_grant_packet up to its await: the length check, then the future
\* is pending on the queue.
wait_grant_packet(a, header) ==
    /\ a \in Handles
    /\ ww.st = "idle"
    /\ IF exceeds_max(header, apps[a])
       THEN /\ ret' = Returned("wait_grant_packet", "MaximumPacketExceeded")
            /\ UNCHANGED ww
       ELSE /\ ww' = [st |-> "pending", a |-> a, header |-> header]
            /\ ret' = Returned("wait_grant_packet", "Pending")
    /\ UNCHANGED <<apps, init_log, timer_flag, q, wg, rg, wr, inflight, granted>>

\* The pending future is polled and the queue grants the reservation.
wait_grant_ready ==
    /\ ww.st = "pending"
    /\ LET r == FramedGrant(q[prod_to_radio], Cap(prod_to_radio), grant_size(ww.header))
       IN /\ r.err = "Ok"
          /\ q' = [q EXCEPT ![prod_to_radio] = new_from_app(r.q, r.off, ww.header)]
          /\ wg' = [wg EXCEPT ![prod_to_radio] =
                      [st |-> "held", off |-> r.off, hdr |-> r.hdr,
                       hset |-> TRUE, used |-> 0, plen |-> 0,
                       req |-> ww.header]]
    /\ granted[prod_to_radio] < MaxGrants
    /\ granted' = [granted EXCEPT ![prod_to_radio] = @ + 1]
    /\ ww' = NoWait
    /\ ret' = Returned("wait_grant_packet", "Ok")
    /\ UNCHANGED <<apps, init_log, timer_flag, rg, wr, inflight>>

\* The caller drops the future before it resolves.
wait_grant_dropped ==
    /\ ww.st = "pending"
    /\ ww' = NoWait
    /\ ret' = NoRet
    /\ UNCHANGED <<apps, init_log, timer_flag, q, wg, rg, wr, inflight, granted>>

(***************************************************************************)
(* PayloadR (payload.rs).                                                  *)
(***************************************************************************)
\* PayloadR::new over a read grant of the queue.
PayloadR_new(r) == [held |-> TRUE, off |-> r.off, len |-> r.len]

get_header(qc, r) == from_bytes(GrantBytes(qc, r.off, 0, header_size))

\* Deref: the bytes after the header.
Body(qc, r) == GrantBytes(qc, r.off, header_size, r.len)

\* The whole frame a PayloadR views.
Frame(qc, r) == GrantBytes(qc, r.off, 0, r.len)

\* Mutant: release() lets go of the grant without releasing the frame.
release_forgets(c) ==
    /\ rg[c].held
    /\ q' = [q EXCEPT ![c] = FramedReadDrop(q[c])]
    /\ rg' = [rg EXCEPT ![c] = NoR]
    /\ inflight' = [inflight EXCEPT ![c] = IF @ = <<>> THEN @ ELSE Tail(@)]
    /\ ret' = NoRet
    /\ UNCHANGED <<apps, init_log, timer_flag, wg, ww, wr, granted>>

release(c) ==
    /\ rg[c].held
    /\ q' = [q EXCEPT ![c] = FramedRelease(q[c], rg[c].len)]
    /\ rg' = [rg EXCEPT ![c] = NoR]
    /\ inflight' = [inflight EXCEPT ![c] = IF @ = <<>> THEN @ ELSE Tail(@)]
    /\ ret' = NoRet
    /\ UNCHANGED <<apps, init_log, timer_flag, wg, ww, wr, granted>>

\* Mutant: a PayloadR going out of scope releases its frame.
drop_r_releases(c) ==
    /\ rg[c].held
    /\ q' = [q EXCEPT ![c] = FramedRelease(q[c], rg[c].len)]
    /\ rg' = [rg EXCEPT ![c] = NoR]
    /\ ret' = Returned("drop_r", "none")
    /\ UNCHANGED <<apps, init_log, timer_flag, wg, ww, wr, inflight, granted>>

\* A PayloadR going out of scope unreleased.
drop_r(c) ==
    /\ rg[c].held
    /\ q' = [q EXCEPT ![c] = FramedReadDrop(q[c])]
    /\ rg' = [rg EXCEPT ![c] = NoR]
    /\ ret' = Returned("drop_r", "none")
    /\ UNCHANGED <<apps, init_log, timer_flag, wg, ww, wr, inflight, granted>>

(***************************************************************************)
(* EsbAppReceiver / EsbApp, receiving side (app.rs).                       *)
(***************************************************************************)
\* Mutant: msg_ready keeps the read grant it took instead of dropping it.
msg_ready_keeps_grant(a) ==
    /\ a \in Handles
    /\ ~wr
    /\ LET r == FramedRead(q[cons_from_radio])
       IN /\ ret' = Returned("msg_ready", IF r.err = "Ok" THEN "true" ELSE "false")
          /\ q' = [q EXCEPT ![cons_from_radio] = r.q]
    /\ UNCHANGED <<apps, init_log, timer_flag, wg, rg, ww, wr, inflight, granted>>

msg_ready(a) ==
    /\ a \in Handles
    /\ ~wr
    /\ LET r == FramedRead(q[cons_from_radio])
       IN /\ ret' = Returned("msg_ready", IF r.err = "Ok" THEN "true" ELSE "false")
          /\ q' = [q EXCEPT ![cons_from_radio] = IF r.err = "Ok" THEN FramedReadDrop(r.q) ELSE r.q]
    /\ UNCHANGED <<apps, init_log, timer_flag, wg, rg, ww, wr, inflight, granted>>

read_packet(a) ==
    /\ a \in Handles
    /\ ~wr
    /\ LET r == FramedRead(q[cons_from_radio])
       IN /\ q' = [q EXCEPT ![cons_from_radio] = r.q]
          /\ IF r.err = "Ok"
             THEN /\ rg' = [rg EXCEPT ![cons_from_radio] = PayloadR_new(r)]
                  /\ ret' = Returned("read_packet", "Some")
             ELSE /\ ret' = Returned("read_packet", "None")
                  /\ UNCHANGED rg
    /\ UNCHANGED <<apps, init_log, timer_flag, wg, ww, wr, inflight, granted>>

\* wait_read_packet up to its await.
wait_read_packet(a) ==
    /\ a \in Handles
    /\ ~wr
    /\ wr' = TRUE
    /\ ret' = Returned("wait_read_packet", "Pending")
    /\ UNCHANGED <<apps, init_log, timer_flag, q, wg, rg, ww, inflight, granted>>

\* The pending future is polled and the queue has a frame.
wait_read_ready ==
    /\ wr
    /\ LET r == FramedRead(q[cons_from_radio])
       IN /\ r.err = "Ok"
          /\ q' = [q EXCEPT ![cons_from_radio] = r.q]
          /\ rg' = [rg EXCEPT ![cons_from_radio] = PayloadR_new(r)]
    /\ wr' = FALSE
    /\ ret' = Returned("wait_read_packet", "Ok")
    /\ UNCHANGED <<apps, init_log, timer_flag, wg, ww, inflight, granted>>

(***************************************************************************)
(* The interrupt side: the consumer of the app-to-radio queue and the      *)
(* producer of the radio-to-app queue.                                     *)
(***************************************************************************)
\* cons_from_app.read(), wrapped in a PayloadR.
irq_read ==
    /\ Len(apps) > 0
    /\ LET r == FramedRead(q[cons_from_app])
       IN /\ q' = [q EXCEPT ![cons_from_app] = r.q]
          /\ rg' = [rg EXCEPT ![cons_from_app] = IF r.err = "Ok" THEN PayloadR_new(r) ELSE @]
    /\ ret' = NoRet
    /\ UNCHANGED <<apps, init_log, timer_flag, wg, ww, wr, inflight, granted>>

\* prod_to_app.grant of a maximum-size frame, wrapped by new_from_radio:
\* the reservation's bytes are left as they are.
new_from_radio(r) ==
    [st |-> "held", off |-> r.off, hdr |-> r.hdr, hset |-> FALSE, used |-> 0,
     plen |-> 0, req |-> NoHeader]

radio_grant(a) ==
    /\ a \in Handles
    /\ LET r == FramedGrant(q[prod_to_app], Cap(prod_to_app), apps[a] + header_size)
       IN /\ r.err = "Ok"
          /\ q' = [q EXCEPT ![prod_to_app] = r.q]
          /\ wg' = [wg EXCEPT ![prod_to_app] = new_from_radio(r)]
    /\ granted[prod_to_app] < MaxGrants
    /\ granted' = [granted EXCEPT ![prod_to_app] = @ + 1]
    /\ ret' = NoRet
    /\ UNCHANGED <<apps, init_log, timer_flag, rg, ww, wr, inflight>>

\* The received packet's header is stored; its length fits the reservation.
radio_update_header(header) ==
    /\ wg[prod_to_app].st = "held"
    /\ header.length + header_size <= wg[prod_to_app].hdr
    /\ q' = [q EXCEPT ![prod_to_app] = update_header(q[prod_to_app], wg[prod_to_app].off, header)]
    /\ wg' = [wg EXCEPT ![prod_to_app].hset = TRUE]
    /\ ret' = NoRet
    /\ UNCHANGED <<apps, init_log, timer_flag, rg, ww, wr, inflight, granted>>

(***************************************************************************)
(* Specifications.                                                         *)
(***************************************************************************)
Payloads == {MaxPayload}
Useds == 0..(MaxPayload + 1)
BodyIdx == 0..(MaxPayload - 1)
\* The headers of the specifications that follow one frame at a time.
PlainHeaders == {h \in Headers : h.pipe = 1}

\* The documented use, one split, then the app-to-radio direction: the
\* application produces, the interrupt consumes.
Next ==
    \/ \E max \in Payloads : Len(apps) = 0 /\ try_split(max)
    \/ \E a \in Handles, header \in Headers : grant_packet(a, header)
    \/ \E i \in BodyIdx, b \in BodyVals : write_body("atr", i, b)
    \/ commit_all("atr")
    \/ \E used \in Useds : commit_header("atr", used)
    \/ commit_grant("atr")
    \/ drop_w("atr")
    \/ irq_read
    \/ release("atr")
    \/ drop_r("atr")

Spec == Init /\ [][Next]_vars

\* One split, then the radio-to-app direction: the interrupt produces, the
\* application consumes.
NextRx ==
    \/ \E max \in Payloads : Len(apps) = 0 /\ try_split(max)
    \/ \E a \in Handles : radio_grant(a)
    \/ \E header \in Headers : radio_update_header(header)
    \/ \E i \in BodyIdx, b \in BodyVals : write_body("rta", i, b)
    \/ commit_all("rta")
    \/ \E used \in Useds : commit_header("rta", used)
    \/ commit_grant("rta")
    \/ drop_w("rta")
    \/ \E a \in Handles : msg_ready(a)
    \/ \E a \in Handles : read_packet(a)
    \/ \E a \in Handles : wait_read_packet(a)
    \/ wait_read_ready
    \/ release("rta")
    \/ drop_r("rta")

SpecRx == Init /\ [][NextRx]_vars

\* One split, then the app-to-radio direction with the suspending
\* wait_grant_packet beside grant_packet.
NextWait ==
    \/ \E max \in Payloads : Len(apps) = 0 /\ try_split(max)
    \/ \E a \in Handles, header \in PlainHeaders : grant_packet(a, header)
    \/ \E a \in Handles, header \in PlainHeaders : wait_grant_packet(a, header)
    \/ wait_grant_ready
    \/ wait_grant_dropped
    \/ commit_all("atr")
    \/ \E used \in Useds : commit_header("atr", used)
    \/ commit_grant("atr")
    \/ drop_w("atr")
    \/ irq_read
    \/ release("atr")
    \/ drop_r("atr")

SpecWait == Init /\ [][NextWait]_vars

\* try_split called again and again, with traffic on the app-to-radio
\* queue through whichever handles have been handed out.
NextSplit ==
    \/ \E max \in Payloads : try_split(max)
    \/ timer_fired
    \/ \E a \in Handles, header \in PlainHeaders : grant_packet(a, header)
    \/ commit_all("atr")
    \/ drop_w("atr")
    \/ irq_read
    \/ release("atr")

SpecSplit == Init /\ [][NextSplit]_vars

\* One split, then traffic in one of the two directions.
NextOneWay ==
    \/ granted["rta"] = 0 /\ ~wr /\ Next
    \/ granted["atr"] = 0 /\ NextRx

SpecOneWay == Init /\ [][NextOneWay]_vars

\* One split with room for a body of MaxPayload + 1 bytes, then the
\* app-to-radio direction with bodies written a byte at a time and
\* committed short.
E2EPayloads == {MaxPayload + 1}
E2EBodyIdx == 0..MaxPayload
E2EBodyVals == {7, 8}
E2EHeaders == {h \in Headers : h.pipe = 2}

NextE2E ==
    \/ \E max \in E2EPayloads : Len(apps) = 0 /\ try_split(max)
    \/ \E a \in Handles, header \in E2EHeaders : grant_packet(a, header)
    \/ \E i \in E2EBodyIdx, b \in E2EBodyVals : write_body("atr", i, b)
    \/ commit_all("atr")
    \/ \E used \in Useds : commit_header("atr", used)
    \/ commit_grant("atr")
    \/ irq_read
    \/ release("atr")

SpecE2E == Init /\ [][NextE2E]_vars

\* The header codec on its own: to_bytes and from_bytes called on headers
\* and byte arrays over the corners of u8.
CodecBytes == {0, 1, 255}
CodecHeaders == [rssi : CodecBytes, pipe : CodecBytes, length : CodecBytes,
                 pid_no_ack : CodecBytes]
CodecArrays == [1..header_size -> CodecBytes]

call_to_bytes(h) ==
    /\ ret' = [op |-> "to_bytes", arg |-> h, res |-> to_bytes(h)]
    /\ UNCHANGED <<apps, init_log, timer_flag, q, wg, rg, ww, wr, inflight, granted>>

call_from_bytes(bytes) ==
    /\ ret' = [op |-> "from_bytes", arg |-> bytes, res |-> from_bytes(bytes)]
    /\ UNCHANGED <<apps, init_log, timer_flag, q, wg, rg, ww, wr, inflight, granted>>

\* from_bytes applied to what to_bytes has just returned.
call_round_trip ==
    /\ ret.op = "to_bytes"
    /\ ret' = [op |-> "round_trip", arg |-> ret.arg, res |-> from_bytes(ret.res)]
    /\ UNCHANGED <<apps, init_log, timer_flag, q, wg, rg, ww, wr, inflight, granted>>

NextCodec ==
    \/ \E h \in CodecHeaders : call_to_bytes(h)
    \/ \E bytes \in CodecArrays : call_from_bytes(bytes)
    \/ call_round_trip

SpecCodec == Init /\ [][NextCodec]_vars

\* One split, then both directions at once, whole frames only; the two
\* queues share the budget of reservations.
Budget == granted["atr"] + granted["rta"] < MaxGrants

NextBoth ==
    \/ \E max \in Payloads : Len(apps) = 0 /\ try_split(max)
    \/ \E a \in Handles, header \in PlainHeaders : Budget /\ grant_packet(a, header)
    \/ commit_all("atr")
    \/ irq_read
    \/ release("atr")
    \/ \E a \in Handles : Budget /\ radio_grant(a)
    \/ \E header \in PlainHeaders : radio_update_header(header)
    \/ commit_all("rta")
    \/ \E a \in Handles : msg_ready(a)
    \/ \E a \in Handles : read_packet(a)
    \/ release("rta")

SpecBoth == Init /\ [][NextBoth]_vars

(***************************************************************************)
(* Addresses (app.rs).                                                     *)
(***************************************************************************)
\* Mutant: the check lets channel 101 through.
Addresses_new_off_by_one(base0, base1, prefixes0, prefixes1, rf_channel) ==
    IF rf_channel > 101
    THEN [err |-> "InvalidParameters", val |-> <<>>]
    ELSE [err |-> "Ok",
          val |-> [base0 |-> base0, base1 |-> base1, prefixes0 |-> prefixes0,
                   prefixes1 |-> prefixes1, rf_channel |-> rf_channel]]

\* Addresses::new: [err, val].
Addresses_new(base0, base1, prefixes0, prefixes1, rf_channel) ==
    IF rf_channel > 100
    THEN [err |-> "InvalidParameters", val |-> <<>>]
    ELSE [err |-> "Ok",
          val |-> [base0 |-> base0, base1 |-> base1, prefixes0 |-> prefixes0,
                   prefixes1 |-> prefixes1, rf_channel |-> rf_channel]]

\* Default for Addresses.
Addresses_default ==
    [base0 |-> <<231, 231, 231, 231>>, base1 |-> <<194, 194, 194, 194>>,
     prefixes0 |-> <<231, 194, 195, 196>>, prefixes1 |-> <<197, 198, 199, 200>>,
     rf_channel |-> 2]

\* Addresses built on their own, over channels around the limit and two
\* values of each address field.
Channels == {0, 2, 100, 101, 255}
Bases == {<<0, 0, 0, 0>>, <<231, 231, 231, 231>>}
Prefixes == {<<1, 2, 3, 4>>, <<255, 255, 255, 255>>}

call_Addresses_new(base0, base1, prefixes0, prefixes1, rf_channel) ==
    /\ ret' = [op |-> "Addresses::new",
               arg |-> [base0 |-> base0, base1 |-> base1, prefixes0 |-> prefixes0,
                        prefixes1 |-> prefixes1, rf_channel |-> rf_channel],
               res |-> Addresses_new(base0, base1, prefixes0, prefixes1, rf_channel)]
    /\ UNCHANGED <<apps, init_log, timer_flag, q, wg, rg, ww, wr, inflight, granted>>

call_Addresses_default ==
    /\ ret' = [op |-> "Addresses::default", arg |-> <<>>,
               res |-> [err |-> "Ok", val |-> Addresses_default]]
    /\ UNCHANGED <<apps, init_log, timer_flag, q, wg, rg, ww, wr, inflight, granted>>

NextAddr ==
    \/ \E base0 \in Bases, base1 \in Bases, prefixes0 \in Prefixes,
          prefixes1 \in Prefixes, rf_channel \in Channels :
            call_Addresses_new(base0, base1, prefixes0, prefixes1, rf_channel)
    \/ call_Addresses_default

SpecAddr == Init /\ [][NextAddr]_vars

\* One split, then one of the two directions with its suspending call,
\* under fair scheduling: a future that can resolve is polled, the interrupt
\* reads and releases what it can, and a PayloadW that is held gets
\* committed.
NextLive ==
    \/ \E max \in Payloads : Len(apps) = 0 /\ try_split(max)
    \/ /\ granted["rta"] = 0 /\ ~wr
       /\ \/ \E a \in Handles, header \in PlainHeaders :
                granted["atr"] < MaxGrants /\ wait_grant_packet(a, header)
          \/ wait_grant_ready
          \/ commit_all("atr")
          \/ irq_read
          \/ release("atr")
    \/ /\ granted["atr"] = 0 /\ ww.st = "idle"
       /\ \/ \E a \in Handles : radio_grant(a)
          \/ \E header \in PlainHeaders : radio_update_header(header)
          \/ commit_all("rta")
          \/ \E a \in Handles : ~rg["rta"].held /\ wait_read_packet(a)
          \/ wait_read_ready
          \/ release("rta")

SpecLive ==
    /\ Init
    /\ [][NextLive]_vars
    /\ WF_vars(wait_grant_ready)
    /\ WF_vars(wait_read_ready)
    /\ WF_vars(commit_all("atr"))
    /\ WF_vars(irq_read)
    /\ WF_vars(release("atr"))

\* The radio driver asks a PayloadW or a PayloadR for its DMA pointer.
w_dma_pointer(c) ==
    /\ wg[c].st = "held"
    /\ ret' = [op |-> "PayloadW::dma_pointer", c |-> c, res |-> dma_pointer(wg[c].off)]
    /\ UNCHANGED <<apps, init_log, timer_flag, q, wg, rg, ww, wr, inflight, granted>>

r_dma_pointer(c) ==
    /\ rg[c].held
    /\ ret' = [op |-> "PayloadR::dma_pointer", c |-> c, res |-> dma_pointer(rg[c].off)]
    /\ UNCHANGED <<apps, init_log, timer_flag, q, wg, rg, ww, wr, inflight, granted>>

\* One split, then one of the two directions, whole frames, with the DMA
\* pointer of every grant asked for.
NextDma ==
    \/ \E max \in Payloads : Len(apps) = 0 /\ try_split(max)
    \/ /\ granted["rta"] = 0
       /\ \/ \E a \in Handles, header \in PlainHeaders : grant_packet(a, header)
          \/ commit_all("atr")
          \/ irq_read
          \/ release("atr")
          \/ w_dma_pointer("atr")
          \/ r_dma_pointer("atr")
    \/ /\ granted["atr"] = 0
       /\ \/ \E a \in Handles : radio_grant(a)
          \/ \E header \in PlainHeaders : radio_update_header(header)
          \/ commit_all("rta")
          \/ \E a \in Handles : read_packet(a)
          \/ release("rta")
          \/ w_dma_pointer("rta")
          \/ r_dma_pointer("rta")

SpecDma == Init /\ [][NextDma]_vars

\* One split, then everything the application can do to send: grant_packet
\* and wait_grant_packet, body writes, commit(used) and commit_all, dropped
\* grants and futures, with the interrupt consuming.
NextSend ==
    \/ NextWait
    \/ \E i \in BodyIdx, b \in BodyVals : write_body("atr", i, b)

SpecSend == Init /\ [][NextSend]_vars

\* One split, then the radio-to-app direction with whole frames: the
\* interrupt commits, the application asks msg_ready and read_packet in any
\* order, with and without a PayloadR in hand, and releases or drops it.
NextReady ==
    \/ \E max \in Payloads : Len(apps) = 0 /\ try_split(max)
    \/ \E a \in Handles : radio_grant(a)
    \/ \E header \in Headers : radio_update_header(header)
    \/ commit_all("rta")
    \/ \E a \in Handles : msg_ready(a)
    \/ \E a \in Handles : read_packet(a)
    \/ release("rta")
    \/ drop_r("rta")

SpecReady == Init /\ [][NextReady]_vars

(***************************************************************************)
(* Claims.                                                                 *)
(***************************************************************************)

\* C1: over any sequence of try_split calls on one EsbBuffer only the first
\* succeeds: a later call is refused (AlreadySplit) and no second set of
\* producer/consumer handles is ever handed out.
C1_SplitOnce ==
    /\ Len(apps) <= 1
    /\ (ret.op = "try_split" /\ ret.res = "Ok") => Len(apps) = 1

\* A header whose length is over the maximum handle a was configured with.
Oversize(a, header) == header.length > apps[a]

\* C2: a grant_packet call (with a length within the configured maximum)
\* made while a write grant is outstanding on the queue fails with
\* GrantInProgress and leaves the outstanding grant and the queue as they
\* were.
C2_SecondGrantInProgress ==
    [][\A a \in Handles, header \in Headers :
          (/\ wg["atr"].st # "none"
           /\ ~Oversize(a, header)
           /\ grant_packet(a, header))
          => (ret'.res = "GrantInProgress" /\ wg' = wg /\ q' = q)]_vars

\* Whether the queue has room for a reservation of sz bytes right now.
NoRoom(qc, cap, sz) == FramedGrant(qc, cap, sz).err = "InsufficientSize"

\* C3: with no write grant outstanding and a length within the maximum, a
\* grant_packet call whose reservation does not fit in the queue's free
\* space fails with the queue-full error, not with a generic internal
\* error, and leaves the queue as it was.
C3_QueueFullReported ==
    [][\A a \in Handles, header \in Headers :
          (/\ wg["atr"].st = "none"
           /\ ~Oversize(a, header)
           /\ NoRoom(q["atr"], OutCap, payload_len_of(header) + header_size)
           /\ grant_packet(a, header))
          => (/\ ret'.res \in {"OutgoingQueueFull", "InsufficientSpace"}
              /\ wg' = wg /\ q' = q /\ inflight' = inflight)]_vars

\* C4: grant_packet and wait_grant_packet called with a header longer than
\* the configured maximum return MaximumPacketExceeded at once: nothing is
\* reserved, no future is left pending, and every part of the state a later
\* request depends on is as it was, so a following valid request fares as
\* it would have without the rejected call.
C4_OversizeRejected ==
    [][\A a \in Handles, header \in Headers :
          (/\ Oversize(a, header)
           /\ (grant_packet(a, header) \/ wait_grant_packet(a, header)))
          => (/\ ret'.res = "MaximumPacketExceeded"
              /\ UNCHANGED <<apps, q, wg, rg, ww, wr, inflight, granted>>)]_vars

\* C4 witness: wait_grant_packet has just rejected an oversize header on a
\* queue that holds a committed frame.
C4_Witness ==
    /\ ret = Returned("wait_grant_packet", "MaximumPacketExceeded")
    /\ inflight["atr"] # <<>>

\* The consumer of queue c holds, or would be handed by its next read, the
\* oldest frame committed and not yet released; with none, the read is Empty.
Fifo(c) ==
    IF rg[c].held
    THEN inflight[c] # <<>> /\ Frame(q[c], rg[c]) = Head(inflight[c])
    ELSE LET r == FramedRead(q[c])
         IN IF inflight[c] = <<>>
            THEN r.err = "Empty"
            ELSE r.err = "Ok" /\ GrantBytes(r.q, r.off, 0, r.len) = Head(inflight[c])

\* The frames a consumer gets from the queue by reading and releasing until
\* the queue is empty, in order.
RECURSIVE DrainFrom(_, _)
DrainFrom(qc, n) ==
    IF n = 0 THEN <<>>
    ELSE LET r == FramedRead(qc)
         IN IF r.err # "Ok" THEN <<>>
            ELSE <<GrantBytes(r.q, r.off, 0, r.len)>>
                 \o DrainFrom(FramedRelease(r.q, r.len), n - 1)

Visible(c) == DrainFrom(FramedReadDrop(q[c]), Cap(c))

\* C5: frames committed on a queue in the order A, B, C reach its consumer
\* (a read followed by a release) in that order under every interleaving of
\* producer and consumer steps, none lost, duplicated or reordered: inflight
\* gains a frame at each commit and loses its head at each release, and the
\* consumer always sees its head.
C5_Fifo == \A c \in Chans : Fifo(c) /\ Visible(c) = inflight[c]

\* C5 witness: the third reservation has been committed behind the second,
\* the queue has wrapped, and the consumer reads the second frame.
C5_Witness ==
    \E c \in Chans :
        /\ granted[c] = 3
        /\ Len(inflight[c]) = 2
        /\ inflight[c][1] # inflight[c][2]
        /\ rg[c].held
        /\ q[c].write < q[c].read

\* The bytes of queue c from lo up to hi (exclusive) are the same before
\* and after the step.
SameBytes(c, lo, hi) ==
    \A x \in DOMAIN q[c].buf : (x >= lo /\ x < hi) => q'[c].buf[x] = q[c].buf[x]

\* The step changed no byte of queue c outside the write grant's reservation.
OnlyReservation(c) ==
    /\ SameBytes(c, 0, wg[c].off)
    /\ SameBytes(c, wg[c].off + FrameHdrLen + wg[c].hdr, Cap(c))

\* The regions of the read grant and of the write grant of queue c.
Disjoint(c) ==
    \/ rg[c].off + FrameHdrLen + rg[c].len <= wg[c].off
    \/ wg[c].off + FrameHdrLen + wg[c].hdr <= rg[c].off

\* C6: in every reachable state of either direction (write grants made by
\* new_from_app, and by new_from_radio with update_header), the frame a
\* consumer holds is a committed one whose body is as long as its own
\* header says, and it shares no byte with a reservation the producer still
\* holds, filled and committed or not; so are the frames waiting behind it.
C6_FrameAtomic ==
    \A c \in Chans :
        /\ rg[c].held =>
              /\ rg[c].len >= header_size
              /\ Len(Body(q[c], rg[c])) = get_header(q[c], rg[c]).length
              /\ \E i \in 1..Len(inflight[c]) : Frame(q[c], rg[c]) = inflight[c][i]
              /\ wg[c].st # "none" => Disjoint(c)
        /\ \A i \in 1..Len(Visible(c)) :
              LET f == Visible(c)[i]
              IN Len(f) >= header_size /\ Len(f) = header_size + f[length_idx + 1]

\* C6 witness: the application holds a received frame with a body while the
\* radio side is midway through committing the next one.
C6_Witness ==
    /\ rg["rta"].held
    /\ Len(Body(q["rta"], rg["rta"])) > 0
    /\ wg["rta"].st = "committing"
    /\ wg["rta"].used < get_header(q["rta"], rg["rta"]).length

\* The length declared when the application's write grant was obtained.
Declared == wg["atr"].hdr - header_size

\* C7: for a write grant obtained with declared length n, commit(used)
\* records min(used, n) in the header and commits a frame whose length
\* field and body length are both min(used, n): used when used <= n, n when
\* used > n; neither half of the commit touches a byte outside the
\* reservation.
C7_CommitClamps ==
    [][/\ \A used \in Useds :
            commit_header("atr", used) =>
                /\ wg'["atr"].plen = Min(used, Declared)
                /\ payload_len(q'["atr"], wg["atr"].off) = Min(used, Declared)
                /\ OnlyReservation("atr")
       /\ commit_grant("atr") =>
            LET f == inflight'["atr"][Len(inflight'["atr"])]
            IN /\ Len(inflight'["atr"]) = Len(inflight["atr"]) + 1
               /\ Len(f) = header_size + Min(wg["atr"].used, Declared)
               /\ f[length_idx + 1] = Min(wg["atr"].used, Declared)
               /\ OnlyReservation("atr")]_vars

\* C7 witness: a commit(used) with used over the declared length has
\* truncated the header to the declared length.
C7_Witness ==
    /\ wg["atr"].st = "committing"
    /\ wg["atr"].used > Declared
    /\ Declared > 0
    /\ payload_len(q["atr"], wg["atr"].off) = Declared

\* C8: a PayloadR going out of scope without release leaves its frame in
\* the queue: the read index and the frame's bytes stay, the next read by
\* the same consumer returns that frame again, and read_packet / msg_ready
\* called with no read grant held find the oldest unreleased frame; only
\* release moves the read index past the frame.
C8_DropKeepsFrame ==
    [][/\ drop_r("rta") =>
            LET r == FramedRead(q'["rta"])
            IN /\ r.err = "Ok"
               /\ r.off = rg["rta"].off
               /\ r.len = rg["rta"].len
               /\ GrantBytes(r.q, r.off, 0, r.len) = Frame(q["rta"], rg["rta"])
               /\ q'["rta"].read = q["rta"].read
               /\ inflight' = inflight
       /\ \A a \in Handles :
            (~rg["rta"].held /\ inflight["rta"] # <<>> /\ read_packet(a)) =>
                /\ ret'.res = "Some"
                /\ Frame(q'["rta"], rg'["rta"]) = Head(inflight["rta"])
                /\ inflight' = inflight
       /\ \A a \in Handles :
            (~rg["rta"].held /\ inflight["rta"] # <<>> /\ msg_ready(a)) =>
                /\ ret'.res = "true"
                /\ LET r == FramedRead(q'["rta"])
                   IN r.err = "Ok" /\ GrantBytes(r.q, r.off, 0, r.len) = Head(inflight["rta"])
                /\ inflight' = inflight
       /\ release("rta") =>
            /\ q'["rta"].read = q["rta"].read + FrameHdrLen + rg["rta"].len
            /\ inflight'["rta"] = Tail(inflight["rta"])]_vars

\* C8 witness: a read grant has just been dropped unreleased while a second,
\* different frame waits behind the one it viewed.
C8_Witness ==
    /\ ret.op = "drop_r"
    /\ ~rg["rta"].held
    /\ Len(inflight["rta"]) = 2
    /\ inflight["rta"][1] # inflight["rta"][2]

\* C9: a PayloadW going out of scope uncommitted adds no frame for the
\* consumer, leaves the committed frames and the read side as they were,
\* and ends the write grant, so that the same reservation can be granted
\* again at once; in every state the consumer is due exactly the committed
\* frames, in order.
C9_DropWriteInvisible ==
    /\ [](Visible("atr") = inflight["atr"])
    /\ [][drop_w("atr") =>
            /\ inflight' = inflight
            /\ rg' = rg
            /\ q'["atr"].read = q["atr"].read
            /\ wg'["atr"] = NoW
            /\ ~q'["atr"].wip
            /\ FramedRead(q'["atr"]).err = FramedRead(q["atr"]).err
            /\ FramedGrant(q'["atr"], OutCap, wg["atr"].hdr).err = "Ok"]_vars

\* C9 witness: a write grant has just been dropped uncommitted on a queue
\* that holds committed frames and has wrapped.
C9_Witness ==
    /\ ret.op = "drop_w"
    /\ wg["atr"].st = "none"
    /\ inflight["atr"] # <<>>
    /\ q["atr"].read > 0

\* No write grant, no read grant, and every committed frame released.
Drained ==
    /\ Len(apps) > 0
    /\ wg["atr"].st = "none"
    /\ ~rg["atr"].held
    /\ inflight["atr"] = <<>>

HalfFits(header) == 2 * (payload_len_of(header) + header_size + FrameHdrLen) <= OutCap

C11_EndToEnd ==
    [][/\ \A i \in E2EBodyIdx, b \in E2EBodyVals :
            write_body("atr", i, b) =>
                LET w == wg["atr"]
                IN \A j \in 0..(w.hdr - 1) :
                      GrantBytes(q'["atr"], w.off, j, j + 1) =
                          IF j = header_size + i THEN <<b>>
                          ELSE GrantBytes(q["atr"], w.off, j, j + 1)
       /\ commit_grant("atr") =>
            LET f == inflight'["atr"][Len(inflight'["atr"])]
                k == Min(wg["atr"].used, wg["atr"].req.length)
            IN /\ f[pipe_idx + 1] = wg["atr"].req.pipe
               /\ f[length_idx + 1] = k
               /\ Len(f) = header_size + k
               /\ SubSeq(f, header_size + 1, Len(f)) =
                      GrantBytes(q["atr"], wg["atr"].off, header_size, header_size + k)
       /\ (irq_read /\ ~rg["atr"].held /\ rg'["atr"].held) =>
            LET f == Head(inflight["atr"])
            IN /\ pipe(q'["atr"], rg'["atr"].off) = f[pipe_idx + 1]
               /\ get_header(q'["atr"], rg'["atr"]).length = Len(f) - header_size
               /\ Body(q'["atr"], rg'["atr"]) = SubSeq(f, header_size + 1, Len(f))]_vars

\* C11 witness: the consumer holds a frame with pipe 2 whose body is the one
\* byte committed of two written: the second byte written lies behind the
\* frame, outside it.
C11_Witness ==
    /\ rg["atr"].held
    /\ pipe(q["atr"], rg["atr"].off) = 2
    /\ Body(q["atr"], rg["atr"]) = <<7>>
    /\ q["atr"].buf[rg["atr"].off + FrameHdrLen + header_size + 1] = 8
    /\ granted["atr"] = 1

\* C12: to_bytes puts rssi at byte 0, pipe at byte 1, length at byte 2 and
\* pid_no_ack at byte 3 of four bytes; from_bytes of any four bytes is the
\* header with those bytes as its fields; and from_bytes(to_bytes(h)) = h.
C12_CodecRoundTrip ==
    /\ ret.op = "to_bytes" =>
          /\ Len(ret.res) = 4
          /\ ret.res[1] = ret.arg.rssi
          /\ ret.res[2] = ret.arg.pipe
          /\ ret.res[3] = ret.arg.length
          /\ ret.res[4] = ret.arg.pid_no_ack
    /\ ret.op = "from_bytes" =>
          /\ ret.res \in CodecHeaders
          /\ ret.res.rssi = ret.arg[1]
          /\ ret.res.pipe = ret.arg[2]
          /\ ret.res.length = ret.arg[3]
          /\ ret.res.pid_no_ack = ret.arg[4]
    /\ ret.op = "round_trip" => ret.res = ret.arg

\* C12 witness: a header with four different-looking fields has made the
\* round trip.
C12_Witness ==
    /\ ret.op = "round_trip"
    /\ ret.arg = [rssi |-> 255, pipe |-> 1, length |-> 255, pid_no_ack |-> 0]
    /\ ret.res.length = 255
    /\ ret.res.pid_no_ack = 0

\* Everything that belongs to queue c.
ChanState(c) == <<q[c], wg[c], rg[c], inflight[c], granted[c]>>

\* C13: the application's grant_packet reserves on the app-to-radio queue
\* and its read_packet and msg_ready read the radio-to-app queue, the
\* interrupt side the other way round: a step of the application's
\* producer or the interrupt's consumer leaves the radio-to-app queue as
\* it was, a step of the interrupt's producer or the application's consumer
\* leaves the app-to-radio queue as it was, the application's read_packet
\* returns a frame only when one was committed on the radio-to-app queue
\* (that frame), and the interrupt's read gets the application's frames.
C13_Routing ==
    [][/\ \A a \in Handles, header \in PlainHeaders :
            grant_packet(a, header) =>
                /\ ChanState("rta")' = ChanState("rta")
                /\ ret'.res = "Ok" => wg'["atr"].st = "held"
       /\ (commit_all("atr") \/ release("atr") \/ irq_read) =>
            ChanState("rta")' = ChanState("rta")
       /\ (irq_read /\ inflight["atr"] # <<>> /\ ~rg["atr"].held) =>
            rg'["atr"].held /\ Frame(q'["atr"], rg'["atr"]) = Head(inflight["atr"])
       /\ (commit_all("rta") \/ release("rta")
              \/ (\E a \in Handles : radio_grant(a))
              \/ (\E header \in PlainHeaders : radio_update_header(header))) =>
            ChanState("atr")' = ChanState("atr")
       /\ \A a \in Handles :
            read_packet(a) =>
                /\ ChanState("atr")' = ChanState("atr")
                /\ ret'.res = "Some" =>
                      /\ inflight["rta"] # <<>>
                      /\ Frame(q'["rta"], rg'["rta"]) = Head(inflight["rta"])
                /\ inflight["rta"] = <<>> => ret'.res = "None"
       /\ \A a \in Handles :
            msg_ready(a) =>
                /\ ChanState("atr")' = ChanState("atr")
                /\ inflight["rta"] = <<>> => ret'.res = "false"]_vars

\* C13 witness: with a frame committed by the application waiting on the
\* app-to-radio queue and nothing received, the application's read_packet
\* has returned None.
C13_Witness ==
    /\ ret = Returned("read_packet", "None")
    /\ inflight["atr"] # <<>>
    /\ inflight["rta"] = <<>>
    /\ ~rg["atr"].held

\* C14: however often try_split is called, the radio's init and the timer's
\* init have each run at most once, the radio's first, both by the time a
\* split has returned, and the timer flag is false when a split returns.
C14_InitOnce ==
    /\ init_log \in {<<>>, <<"radio", "timer">>}
    /\ ret.op = "try_split" => (~timer_flag /\ init_log = <<"radio", "timer">>)

ReadWaiterServed == wr /\ inflight["rta"] # <<>>

\* A wait_grant_packet is pending for at most half of the queue.
GrantWaiterHalf ==
    IF ww.st = "pending" THEN HalfFits(ww.header) ELSE FALSE

C17_DmaPointsAtBody ==
    /\ ret.op = "PayloadW::dma_pointer" =>
          /\ ret.res = wg[ret.c].off + FrameHdrLen + header_size
          /\ ret.res < wg[ret.c].off + FrameHdrLen + wg[ret.c].hdr
    /\ ret.op = "PayloadR::dma_pointer" =>
          /\ ret.res = rg[ret.c].off + FrameHdrLen + header_size
          /\ ret.res < rg[ret.c].off + FrameHdrLen + rg[ret.c].len

\* C17, amended: the DMA pointer of a PayloadW and of a PayloadR is the
\* address of the header's length byte, the start of the grant plus 2,
\* where the part of the frame the radio's DMA handles begins (length,
\* pid_no_ack, body), and lies inside the grant.
C17_DmaPointsAtLength ==
    /\ ret.op = "PayloadW::dma_pointer" =>
          /\ ret.res = wg[ret.c].off + FrameHdrLen + 2
          /\ ret.res = wg[ret.c].off + FrameHdrLen + length_idx
          /\ ret.res >= wg[ret.c].off + FrameHdrLen
          /\ ret.res < wg[ret.c].off + FrameHdrLen + wg[ret.c].hdr
    /\ ret.op = "PayloadR::dma_pointer" =>
          /\ ret.res = rg[ret.c].off + FrameHdrLen + 2
          /\ ret.res = rg[ret.c].off + FrameHdrLen + length_idx
          /\ q[ret.c].buf[ret.res] = get_header(q[ret.c], rg[ret.c]).length
          /\ ret.res >= rg[ret.c].off + FrameHdrLen
          /\ ret.res < rg[ret.c].off + FrameHdrLen + rg[ret.c].len

\* C17 witness: the DMA pointer of a read grant on a frame of length 1, not
\* at the start of the queue, has been taken.
C17_Witness ==
    /\ ret.op = "PayloadR::dma_pointer"
    /\ rg[ret.c].off > 0
    /\ q[ret.c].buf[ret.res] = 1
    /\ rg[ret.c].len = header_size + 1

\* The first header_size bytes of the reservation of the PayloadW on queue c.
HeaderBytes(c) == GrantBytes(q[c], wg[c].off, 0, header_size)

\* C18 as stated: every PayloadW, from new_from_app or from new_from_radio,
\* has had a header stored in its reservation from construction on: its
\* first four bytes are an encoded header, not what the queue held before.
C18_HeaderPresent ==
    \A c \in Chans :
        wg[c].st = "held" =>
            /\ wg[c].hset
            /\ \E h \in Headers : HeaderBytes(c) = to_bytes(h)

\* C18, amended: a PayloadW from new_from_app (grant_packet,
\* wait_grant_packet) has the header it was requested with in its first
\* four bytes from construction until a commit, whatever the queue held
\* there and whatever is written to the body, and pipe() and payload_len()
\* return that header's pipe and length; a PayloadW from new_from_radio has
\* an encoded header there once update_header has stored one.
C18_HeaderFromApp ==
    /\ wg["atr"].st = "held" =>
          /\ wg["atr"].req \in Headers
          /\ HeaderBytes("atr") = to_bytes(wg["atr"].req)
          /\ pipe(q["atr"], wg["atr"].off) = wg["atr"].req.pipe
          /\ payload_len(q["atr"], wg["atr"].off) = wg["atr"].req.length
    /\ (wg["rta"].st = "held" /\ wg["rta"].hset) =>
          \E h \in Headers : HeaderBytes("rta") = to_bytes(h)

\* C18 witness: a PayloadW requested with pipe 2 lies at the start of the
\* queue, in storage an earlier frame has left, with its body written.
C18_Witness ==
    /\ wg["atr"].st = "held"
    /\ wg["atr"].req.pipe = 2
    /\ wg["atr"].off = 0
    /\ granted["atr"] = 3
    /\ q["atr"].read > 0
    /\ GrantBytes(q["atr"], 0, header_size, header_size + 1) = <<7>>

\* C19: for a PayloadW from grant_packet(header), commit_all commits one
\* frame of header.length + header_size bytes, the whole reservation and
\* nothing else, the length being the one recorded in the header; the
\* consumer is due that frame behind the earlier ones.
C19_CommitAllWhole ==
    /\ [](Visible("atr") = inflight["atr"])
    /\ [][commit_all("atr") =>
            LET f == inflight'["atr"][Len(inflight'["atr"])]
            IN /\ inflight'["atr"] = Append(inflight["atr"], f)
               /\ Len(f) = wg["atr"].req.length + header_size
               /\ Len(f) = payload_len(q["atr"], wg["atr"].off) + header_size
               /\ Len(f) = wg["atr"].hdr
               /\ f = GrantBytes(q["atr"], wg["atr"].off, 0, wg["atr"].hdr)
               /\ ReadFrameHdr(q'["atr"], wg["atr"].off) = wg["atr"].hdr
               /\ q'["atr"].write = wg["atr"].off + FrameHdrLen + wg["atr"].hdr
               /\ wg'["atr"] = NoW]_vars

\* C19 witness: two frames committed by commit_all wait on the app-to-radio
\* queue, the second with a body of one byte.
C19_Witness ==
    /\ Len(inflight["atr"]) = 2
    /\ Len(inflight["atr"][2]) = header_size + 1
    /\ inflight["atr"][2][length_idx + 1] = 1
    /\ wg["atr"].st = "none"

\* C20: in every reachable state of the app-to-radio queue every committed
\* frame, waiting or held by the consumer, has a header length field of at
\* most the maximum_payload given at the split, and a body of that length.
C20_LengthWithinMax ==
    /\ \A i \in 1..Len(inflight["atr"]) :
          LET f == inflight["atr"][i]
          IN /\ f[length_idx + 1] <= apps[1]
             /\ Len(f) = header_size + f[length_idx + 1]
    /\ Visible("atr") = inflight["atr"]
    /\ rg["atr"].held =>
          /\ get_header(q["atr"], rg["atr"]).length <= apps[1]
          /\ Len(Body(q["atr"], rg["atr"])) = get_header(q["atr"], rg["atr"]).length

\* C20 witness: a frame of exactly the maximum length and a shorter one wait
\* on the queue while a wait_grant_packet is suspended behind them.
C20_Witness ==
    /\ ww.st = "pending"
    /\ Len(inflight["atr"]) = 2
    /\ inflight["atr"][1][length_idx + 1] = apps[1]
    /\ inflight["atr"][2][length_idx + 1] < apps[1]

\* C21: msg_ready returns true exactly when a read_packet called right after
\* it returns Some: on an empty queue both answer no, with a committed frame
\* and no PayloadR held both answer yes (also when the frame was read before
\* and its PayloadR dropped unreleased), and while the caller holds a
\* PayloadR both answer no; and msg_ready leaves the frames, their order and
\* the caller's PayloadR as they were, the next read finding the same frame.
C21_MsgReadyIffRead ==
    [][/\ \A a \in Handles :
            msg_ready(a) =>
                /\ (ret'.res = "true") = (FramedRead(q'["rta"]).err = "Ok")
                /\ (ret'.res = "true") = (inflight["rta"] # <<>> /\ ~rg["rta"].held)
                /\ inflight' = inflight
                /\ rg' = rg
                /\ q'["rta"].buf = q["rta"].buf
                /\ q'["rta"].rip = q["rta"].rip
                /\ ret'.res = "true" =>
                      LET r == FramedRead(q'["rta"])
                      IN GrantBytes(r.q, r.off, 0, r.len) = Head(inflight["rta"])
       /\ \A a \in Handles :
            (ret.op = "msg_ready" /\ read_packet(a)) =>
                /\ (ret'.res = "Some") = (ret.res = "true")
                /\ ret'.res = "Some" =>
                      Frame(q'["rta"], rg'["rta"]) = Head(inflight["rta"])
                /\ ret'.res = "None" => rg' = rg]_vars

\* C21 witness: msg_ready has answered false with two committed frames in
\* the queue, because the caller still holds the PayloadR of the first.
C21_Witness ==
    /\ ret = Returned("msg_ready", "false")
    /\ rg["rta"].held
    /\ Len(inflight["rta"]) = 2
    /\ inflight["rta"][1] # inflight["rta"][2]

====
